---- MODULE Spec2Model ----
(***************************************************************************)
(* A model of app.py, the Streamlit script that parses a meal-plan PDF     *)
(* with LlamaParse, structures it with an OpenAI chat completion and       *)
(* renders the result as a table, a notes table and a text report.         *)
(*                                                                         *)
(* Text is a sequence of tokens (each token a TLA+ string): an f-string    *)
(* or `+` is the concatenation \o of token sequences and str.join is Join. *)
(* A value that may be None carries a tag t: Null, List(sequence),         *)
(* Obj(function whose DOMAIN is the set of keys present) or Str(text).     *)
(* A call that can raise returns Ok(value) or Raise(exception name).       *)
(***************************************************************************)
EXTENDS Integers, Sequences, FiniteSets, TLC

VARIABLES
    \* ---- the interactive session (main script, lines 17-330) ----
    LLAMA_CLOUD_API_KEY,   \* TRUE iff the key is a non-empty string
    OPENAI_API_KEY,        \* TRUE iff the key is a non-empty string
    secrets,               \* TRUE iff both keys come from st.secrets
    uploaded_file,         \* value of the file_uploader widget: Null or a document
    session_state,         \* dict: the keys markdown_content, meal_plan_json
    cache_data,            \* st.cache_data store of process_pdf_llamaparse: path -> result
    files,                 \* temporary files on disk: path -> content
    pc,                    \* position of the script run
    run,                   \* locals and output of the current / last script run
    calls,                 \* service calls issued since the current upload was chosen
    origin,                \* the document each session_state entry was computed for
    lastOp,                \* the user interaction that started the current / last run
    resetFrom,             \* phase of the session before the reset, while the reset
                           \* is the last interaction or the one before it
    \* ---- the pure reshaping functions (lines 161-243) ----
    json_input,            \* the argument handed to a reshaping function
    rpc,                   \* which reshaping function has been applied
    out                    \* its result

vars == <<LLAMA_CLOUD_API_KEY, OPENAI_API_KEY, secrets, uploaded_file, session_state,
          cache_data, files, pc, run, calls, origin, lastOp, resetFrom,
          json_input, rpc, out>>

sessionVars == <<LLAMA_CLOUD_API_KEY, OPENAI_API_KEY, secrets, uploaded_file, session_state,
                 cache_data, files, pc, run, calls, origin, lastOp, resetFrom>>

renderVars == <<json_input, rpc, out>>

-----------------------------------------------------------------------------
(* Bounds of the model *)

MaxItems == 2      \* longest principale / alternative list
MaxDays == 2       \* most days in a plan
MaxPaths == 2      \* temporary file names the system can hand out
MaxCount == 2      \* the call counters saturate here

-----------------------------------------------------------------------------
(* Python values *)

Null == [t |-> "null"]
List(elements) == [t |-> "list", v |-> elements]
Obj(fields) == [t |-> "obj", v |-> fields]
Str(text) == [t |-> "str", v |-> text]
NoFields == [k \in {} |-> Null]
EmptyDict == Obj(NoFields)
Ok(v) == [ok |-> TRUE, val |-> v]
Raise(e) == [ok |-> FALSE, exc |-> e]

\* dict.get(k, default)
Get(d, k, default) == IF k \in DOMAIN d.v THEN d.v[k] ELSE default

\* k in d
Has(d, k) == k \in DOMAIN d.v

\* truth value of None, a list, a str or a dict
Truthy(v) ==
    /\ v.t # "null"
    /\ v.t \in {"list", "str"} => Len(v.v) > 0
    /\ v.t = "obj" => DOMAIN v.v # {}

RECURSIVE Join(_, _)
\* sep.join(parts): parts is a sequence of texts, sep a text
Join(parts, sep) ==
    IF parts = <<>> THEN <<>>
    ELSE IF Len(parts) = 1 THEN parts[1]
    ELSE parts[1] \o sep \o Join(Tail(parts), sep)

RECURSIVE Repeat(_, _)
\* text * n
Repeat(text, n) == IF n <= 0 THEN <<>> ELSE text \o Repeat(text, n - 1)

NL == <<"\n">>

-----------------------------------------------------------------------------
(* The five meal slots and their labels (lines 168-175, 214-220) *)

pasto_keys == <<"colazione", "spuntino_mattina", "pranzo", "spuntino_pomeriggio", "cena">>

\* the characters of each key, so that replace and capitalize act on them
KeyChars(k) ==
    CASE k = "colazione" -> <<"c","o","l","a","z","i","o","n","e">>
      [] k = "spuntino_mattina" ->
            <<"s","p","u","n","t","i","n","o","_","m","a","t","t","i","n","a">>
      [] k = "pranzo" -> <<"p","r","a","n","z","o">>
      [] k = "spuntino_pomeriggio" ->
            <<"s","p","u","n","t","i","n","o","_","p","o","m","e","r","i","g","g","i","o">>
      [] k = "cena" -> <<"c","e","n","a">>

\* str.replace(old, new) on single characters
Replace(chars, old, new) == [i \in 1..Len(chars) |-> IF chars[i] = old THEN new ELSE chars[i]]

Lower == <<"a","b","c","d","e","f","g","h","i","j","k","l","m",
           "n","o","p","q","r","s","t","u","v","w","x","y","z">>
Upper == <<"A","B","C","D","E","F","G","H","I","J","K","L","M",
           "N","O","P","Q","R","S","T","U","V","W","X","Y","Z">>

ToUpper(c) == IF \E i \in 1..Len(Lower) : Lower[i] = c
              THEN Upper[CHOOSE i \in 1..Len(Lower) : Lower[i] = c] ELSE c
ToLower(c) == IF \E i \in 1..Len(Upper) : Upper[i] = c
              THEN Lower[CHOOSE i \in 1..Len(Upper) : Upper[i] = c] ELSE c

\* str.capitalize(): first character upper case, the rest lower case
Capitalize(chars) ==
    [i \in 1..Len(chars) |-> IF i = 1 THEN ToUpper(chars[i]) ELSE ToLower(chars[i])]

\* pasto_key.replace('_', ' ').capitalize()
SlotLabel(pasto_key) == Capitalize(Replace(KeyChars(pasto_key), "_", " "))

SepWidth == 30

-----------------------------------------------------------------------------
(* json_to_text (lines 161-203) *)

NoDataLine == <<"  - Principale: Nessun dato">>
PrincipaleHeader == <<"  - Principale:">>
AlternativeHeader == <<"  - Alternative:">>
InvalidJsonText == <<"Dati JSON non validi o mancanti.">>
SeparatorLine == NL \o Repeat(<<"-">>, SepWidth) \o NL
NotesHeader == <<"Note/Consigli:">>

\* f"    * {item.get('alimento', 'N/A')}: {item.get('quantita', 'N/A')}"
TextItemLine(item) ==
    <<"    \\u2022 ">> \o Get(item, "alimento", <<"N/A">>) \o <<": ">>
        \o Get(item, "quantita", <<"N/A">>)

TextItemLines(items) == [i \in 1..Len(items) |-> TextItemLine(items[i])]

\* a variant of lines 175-194 without the test of line 189
TextSlotLinesAlwaysAlternative(giorno_data, pasto_key) ==
    LET pasto_data == Get(giorno_data, pasto_key, EmptyDict) IN
    IF pasto_data.t = "null" THEN Raise("AttributeError")
    ELSE
      LET principale == Get(pasto_data, "principale", List(<<>>))
          alternative == Get(pasto_data, "alternative", List(<<>>))
      IN Ok(<<NL \o SlotLabel(pasto_key) \o <<":">> >>
            \o (IF Truthy(principale)
                THEN <<PrincipaleHeader>> \o TextItemLines(principale.v)
                ELSE <<NoDataLine>>)
            \o <<AlternativeHeader>>
            \o (IF Truthy(alternative) THEN TextItemLines(alternative.v) ELSE <<>>))

\* the body of the inner loop for one meal slot (lines 175-194)
TextSlotLines(giorno_data, pasto_key) ==
    LET pasto_data == Get(giorno_data, pasto_key, EmptyDict) IN
    IF pasto_data.t = "null" THEN Raise("AttributeError")
    ELSE
      LET principale == Get(pasto_data, "principale", List(<<>>))
          alternative == Get(pasto_data, "alternative", List(<<>>))
      IN Ok(<<NL \o SlotLabel(pasto_key) \o <<":">> >>
            \o (IF Truthy(principale)
                THEN <<PrincipaleHeader>> \o TextItemLines(principale.v)
                ELSE <<NoDataLine>>)
            \o (IF Truthy(alternative)
                THEN <<AlternativeHeader>> \o TextItemLines(alternative.v)
                ELSE <<>>))

RECURSIVE TextSlotsFrom(_, _)
\* the inner loop over pasto_keys, from index k on
TextSlotsFrom(giorno_data, k) ==
    IF k > Len(pasto_keys) THEN Ok(<<>>)
    ELSE LET first == TextSlotLines(giorno_data, pasto_keys[k]) IN
         IF ~first.ok THEN first
         ELSE LET rest == TextSlotsFrom(giorno_data, k + 1) IN
              IF ~rest.ok THEN rest ELSE Ok(first.val \o rest.val)

\* the body of the outer loop for one day (lines 167-196)
TextDayLines(giorno_data) ==
    LET slots == TextSlotsFrom(giorno_data, 1) IN
    IF ~slots.ok THEN slots
    ELSE Ok(<< <<"Giorno: ">> \o Get(giorno_data, "giorno", <<"Non specificato">>) >>
            \o slots.val
            \o <<SeparatorLine>>)

RECURSIVE TextDaysLines(_)
TextDaysLines(giorni) ==
    IF giorni = <<>> THEN Ok(<<>>)
    ELSE LET first == TextDayLines(Head(giorni)) IN
         IF ~first.ok THEN first
         ELSE LET rest == TextDaysLines(Tail(giorni)) IN
              IF ~rest.ok THEN rest ELSE Ok(first.val \o rest.val)

\* lines 198-201
TextNotesLines(json_data) ==
    IF Has(json_data, "note/consigli") /\ Truthy(json_data.v["note/consigli"])
    THEN <<NotesHeader>>
         \o [i \in 1..Len(json_data.v["note/consigli"].v) |->
                <<"\\u2022 ">> \o json_data.v["note/consigli"].v[i]]
    ELSE <<>>

json_to_text(json_data) ==
    IF ~Truthy(json_data) \/ ~Has(json_data, "giorni")
    THEN Ok(InvalidJsonText)
    ELSE LET giorni == Get(json_data, "giorni", List(<<>>)) IN
         IF giorni.t = "null" THEN Raise("TypeError")
         ELSE LET days == TextDaysLines(giorni.v) IN
              IF ~days.ok THEN days
              ELSE Ok(Join(days.val \o TextNotesLines(json_data), NL))

-----------------------------------------------------------------------------
(* pandas.DataFrame as used at lines 238 and 243 *)

\* An insertion-ordered dict (a table row under construction) is a sequence
\* of <<key, value>> pairs; d[k] = v replaces the value or appends the pair.
OrderedKeys(od) == [i \in 1..Len(od) |-> od[i][1]]

OrderedSet(od, k, v) ==
    IF \E i \in 1..Len(od) : od[i][1] = k
    THEN [i \in 1..Len(od) |-> IF od[i][1] = k THEN <<k, v>> ELSE od[i]]
    ELSE Append(od, <<k, v>>)

OrderedGet(od, k) == od[CHOOSE i \in 1..Len(od) : od[i][1] = k][2]

RECURSIVE AppendNew(_, _)
\* keys, followed by the elements of more that keys does not hold yet
AppendNew(keys, more) ==
    IF more = <<>> THEN keys
    ELSE IF \E i \in 1..Len(keys) : keys[i] = Head(more)
         THEN AppendNew(keys, Tail(more))
         ELSE AppendNew(Append(keys, Head(more)), Tail(more))

RECURSIVE ColumnsOf(_)
\* the columns of DataFrame(list of dicts): the keys in order of first appearance
ColumnsOf(rows) ==
    IF rows = <<>> THEN <<>>
    ELSE AppendNew(OrderedKeys(Head(rows)), ColumnsOf(Tail(rows)))

\* pd.DataFrame(rows), rows a list of dicts: no rows give no columns
DataFrameFromRows(rows) == [columns |-> ColumnsOf(rows), rows |-> rows]

\* pd.DataFrame({column: values}): values must be list-like
DataFrameFromColumn(column, values) ==
    IF values.t = "null" THEN Raise("ValueError")
    ELSE Ok([columns |-> <<column>>,
             rows |-> [i \in 1..Len(values.v) |-> << <<column, values.v[i]>> >>]])

-----------------------------------------------------------------------------
(* get_weekly_plan (lines 207-238) and get_notes (lines 241-243) *)

AlternativePrefix == <<"Alternative: ">>

\* a variant of line 226 with the format of line 184
CellItemColon(item) ==
    Get(item, "alimento", <<>>) \o <<": ">> \o Get(item, "quantita", <<>>)

\* f"{alimento} ({quantita})"
CellItem(item) ==
    Get(item, "alimento", <<>>) \o <<" (">> \o Get(item, "quantita", <<>>) \o <<")">>

CellItems(items) == [i \in 1..Len(items) |-> CellItem(items[i])]

\* the body of the inner loop for one meal slot (lines 221-234): the cell text
CellText(giorno, pasto_key) ==
    LET pasto == Get(giorno, pasto_key, EmptyDict) IN
    IF pasto.t = "null" THEN Raise("AttributeError")
    ELSE IF Get(pasto, "principale", List(<<>>)).t = "null" THEN Raise("TypeError")
    ELSE
      LET principali == CellItems(Get(pasto, "principale", List(<<>>)).v)
          contenuto ==
             IF Truthy(Get(pasto, "alternative", Null))
             THEN Append(principali,
                         AlternativePrefix
                            \o Join(CellItems(pasto.v["alternative"].v), <<", ">>))
             ELSE principali
      IN Ok(IF contenuto # <<>> THEN Join(contenuto, NL) ELSE <<>>)

RECURSIVE RowFrom(_, _, _)
\* the inner loop over pasto_keys from index k on, filling giorno_row
RowFrom(giorno, giorno_row, k) ==
    IF k > Len(pasto_keys) THEN Ok(giorno_row)
    ELSE LET cell == CellText(giorno, pasto_keys[k]) IN
         IF ~cell.ok THEN cell
         ELSE RowFrom(giorno, OrderedSet(giorno_row, pasto_keys[k], cell.val), k + 1)

\* the body of the outer loop for one day (lines 212-236)
DayRow(giorno) == RowFrom(giorno, << <<"giorno", Get(giorno, "giorno", <<>>)>> >>, 1)

RECURSIVE DayRows(_)
DayRows(giorni) ==
    IF giorni = <<>> THEN Ok(<<>>)
    ELSE LET first == DayRow(Head(giorni)) IN
         IF ~first.ok THEN first
         ELSE LET rest == DayRows(Tail(giorni)) IN
              IF ~rest.ok THEN rest ELSE Ok(<<first.val>> \o rest.val)

get_weekly_plan(json_output) ==
    LET giorni == Get(json_output, "giorni", List(<<>>)) IN
    IF giorni.t = "null" THEN Raise("TypeError")
    ELSE LET rows == DayRows(giorni.v) IN
         IF ~rows.ok THEN rows ELSE Ok(DataFrameFromRows(rows.val))

get_notes(json_output) ==
    DataFrameFromColumn("note/consigli", Get(json_output, "note/consigli", List(<<>>)))

-----------------------------------------------------------------------------
(* Inputs of the reshaping functions: the JSON values the language model    *)
(* can return for the schema of lines 72-99, followed or not                *)

RECURSIVE SeqsUpTo(_, _)
\* every sequence over S of length at most n
SeqsUpTo(S, n) ==
    IF n = 0 THEN {<<>>}
    ELSE LET shorter == SeqsUpTo(S, n - 1) IN
         shorter \cup {Append(q, x) : q \in shorter, x \in S}

Item(alimento, quantita) == Obj([alimento |-> <<alimento>>, quantita |-> <<quantita>>])

ItemNoQuantita == Obj([alimento |-> <<"kiwi">>])

PrincipaleLists == SeqsUpTo({Item("pane", "50g"), Item("latte", "200ml")}, MaxItems)

AlternativePool == <<Item("yogurt", "125g"), ItemNoQuantita, Item("Pasto libero", "-")>>

\* the first n alternatives of the pool, taken cyclically
AlternativeList(n) ==
    [i \in 1..n |-> AlternativePool[((i - 1) % Len(AlternativePool)) + 1]]

AlternativeLists == {AlternativeList(n) : n \in 0..MaxItems}

\* slots that follow the schema: both lists present
SchemaSlots ==
    {Obj([principale |-> List(p), alternative |-> List(a)]) :
        p \in PrincipaleLists, a \in AlternativeLists}

EmptySlot == Obj([principale |-> List(<<>>), alternative |-> List(<<>>)])

\* slots with a list field absent or null
LackingSlots ==
    { EmptyDict,
      Obj([principale |-> List(<<Item("pane", "50g")>>)]),
      Obj([alternative |-> List(<<Item("yogurt", "125g")>>)]),
      Obj([principale |-> List(<<>>), alternative |-> Null]),
      Obj([principale |-> List(<<Item("pane", "50g")>>), alternative |-> Null]),
      Obj([principale |-> Null, alternative |-> List(<<>>)]),
      Obj([principale |-> Null, alternative |-> List(<<Item("yogurt", "125g")>>)]) }

\* a day whose five slots are all present and empty
EmptyDay(label) ==
    Obj([k \in {"giorno"} \cup {pasto_keys[i] : i \in 1..Len(pasto_keys)} |->
            IF k = "giorno" THEN <<label>> ELSE EmptySlot])

\* a day without label and without any slot key
BareDay == EmptyDict

\* EmptyDay with slot key set to slot
DayWith(label, key, slot) == Obj([EmptyDay(label).v EXCEPT ![key] = slot])

\* EmptyDay with slot key removed
DayWithout(label, key) ==
    Obj([k \in DOMAIN EmptyDay(label).v \ {key} |-> EmptyDay(label).v[k]])

FocusDays ==
    {DayWith("Lunedi", pasto_keys[i], s) :
        i \in 1..Len(pasto_keys), s \in SchemaSlots \cup LackingSlots \cup {Null}}
    \cup {DayWithout("Lunedi", pasto_keys[i]) : i \in 1..Len(pasto_keys)}

PlainDays == {EmptyDay("Martedi"), BareDay}

\* one focus day at any position among plain days, at most MaxDays days in all
DayLists ==
    {<<>>} \cup
    {before \o <<d>> \o after :
        d \in FocusDays,
        before \in SeqsUpTo(PlainDays, MaxDays - 1),
        after \in SeqsUpTo(PlainDays, MaxDays - 1)}

BoundedDayLists == {g \in DayLists : Len(g) <= MaxDays}

NoteLists == {List(<<>>), List(<< <<"Bere acqua">>, <<"Poco sale">> >>)}

\* a JSON object with a day list and notes
Plan(giorni, notes) ==
    Obj([k \in {"giorni", "note/consigli"} |-> IF k = "giorni" THEN giorni ELSE notes])

JsonInputs ==
    {Obj([giorni |-> List(g)]) : g \in BoundedDayLists}
    \cup {Plan(List(g), n) : g \in BoundedDayLists, n \in NoteLists \cup {Null}}
    \cup {Obj([k \in {"note/consigli"} |-> n]) : n \in NoteLists}
    \cup {Obj([giorni |-> Null]), EmptyDict, Null}

-----------------------------------------------------------------------------
(* The reshaping functions applied to every input *)

RenderInit ==
    /\ json_input \in JsonInputs
    /\ rpc = "input"
    /\ out = Null

\* line 316
ApplyJsonToText ==
    /\ rpc = "input"
    /\ rpc' = "json_to_text"
    /\ out' = json_to_text(json_input)
    /\ UNCHANGED json_input
    /\ UNCHANGED sessionVars

\* line 303: reached only with a truthy meal_plan_json (line 298)
ApplyGetWeeklyPlan ==
    /\ rpc = "input"
    /\ Truthy(json_input)
    /\ rpc' = "get_weekly_plan"
    /\ out' = get_weekly_plan(json_input)
    /\ UNCHANGED json_input
    /\ UNCHANGED sessionVars

\* line 308
ApplyGetNotes ==
    /\ rpc = "input"
    /\ Truthy(json_input)
    /\ rpc' = "get_notes"
    /\ out' = get_notes(json_input)
    /\ UNCHANGED json_input
    /\ UNCHANGED sessionVars

-----------------------------------------------------------------------------
(* The two external services *)

Docs == {"A", "B"}

\* the UploadedFile the file_uploader widget returns for document d
UploadedFile(d) == [t |-> "file", value |-> d]

\* a segment the parsing service returns for a file holding document d
Segment(d, n) == [text |-> <<d, n>>]

\* parser.load_data(path) on a file holding document d (line 48):
\* it raises, returns no segment, or returns the document's segments
LoadDataOutcomes(d) ==
    {Raise("Exception"), Ok(<<>>), Ok(<<Segment(d, "#1")>>),
     Ok(<<Segment(d, "#1"), Segment(d, "#2")>>)}

\* the document a markdown text was parsed from
MarkdownSource(markdown_content) == markdown_content.v[1]

\* response.choices[0].message.content as json.loads sees it (line 143)
JsonText(value) == [t |-> "str", wellformed |-> TRUE, value |-> value]
NotJsonText == [t |-> "str", wellformed |-> FALSE, value |-> Null]

PlanDay(d) == DayWith(d, "colazione", Obj([principale |-> List(<<Item("pane", "50g")>>),
                                            alternative |-> List(<<>>)]))

\* client.chat.completions.create(...) for the markdown of document d (line 129):
\* it raises, or returns a text that is or is not JSON, following the schema or not
CompletionOutcomes(d) ==
    {Raise("APIError"), Ok(NotJsonText), Ok(Null),
     Ok(JsonText(EmptyDict)),
     Ok(JsonText(Obj([k \in {"note/consigli"} |-> List(<< <<d>> >>)]))),
     Ok(JsonText(Plan(List(<<>>), List(<< <<d>> >>)))),
     Ok(JsonText(Plan(List(<<PlanDay(d)>>), List(<< <<d>> >>)))),
     Ok(JsonText(Plan(List(<<PlanDay(d)>>), Null))),
     Ok(JsonText(Obj([giorni |-> List(<<DayWith(d, "pranzo", Null)>>)]))),
     Ok(JsonText(Obj([giorni |-> List(<<DayWith(d, "cena",
                        Obj([principale |-> Null, alternative |-> List(<<>>)]))>>)])))}

\* the document a structured plan was extracted for
PlanSource(meal_plan_json) ==
    IF Has(meal_plan_json, "note/consigli") /\ Truthy(meal_plan_json.v["note/consigli"])
    THEN meal_plan_json.v["note/consigli"].v[1][1]
    ELSE meal_plan_json.v["giorni"].v[1].v["giorno"][1]

\* json.loads (line 143)
json_loads(content) ==
    IF content.t = "null" THEN Raise("TypeError")
    ELSE IF ~content.wellformed THEN Raise("JSONDecodeError")
    ELSE Ok(content.value)

-----------------------------------------------------------------------------
(* process_pdf_llamaparse (lines 30-60) and process_md_gpt (lines 63-158) *)

\* The result of a call: the value returned, the messages shown, and whether
\* the external service was called.
Result(value, messages, called) == [value |-> value, messages |-> messages, called |-> called]

RECURSIVE ParsedContent(_)
\* lines 50-52: parsed_content += doc.text + "\n"
ParsedContent(documents) ==
    IF documents = <<>> THEN <<>>
    ELSE Head(documents).text \o NL \o ParsedContent(Tail(documents))

\* the body of process_pdf_llamaparse, outcome being what load_data does
process_pdf_llamaparse(key, outcome) ==
    IF ~key THEN Result(Null, <<"error: API Key per Llama Cloud non fornita">>, FALSE)
    ELSE IF ~outcome.ok
    THEN Result(Null, <<"info: Avvio del parsing", "error: errore durante il parsing">>, TRUE)
    ELSE IF Len(outcome.val) > 0
    THEN Result(Str(ParsedContent(outcome.val)),
                <<"info: Avvio del parsing", "success: Parsing completato">>, TRUE)
    ELSE Result(Null, <<"info: Avvio del parsing", "error: Nessun contenuto parsato">>, TRUE)

\* @st.cache_data (line 30): a stored result is replayed without running the body
CachedCall(cache, path, key, outcome) ==
    IF path \in DOMAIN cache
    THEN [cache[path] EXCEPT !.called = FALSE]
    ELSE process_pdf_llamaparse(key, outcome)

CacheAfter(cache, path, result) ==
    IF path \in DOMAIN cache THEN cache
    ELSE [p \in DOMAIN cache \cup {path} |-> IF p = path THEN result ELSE cache[p]]

\* process_md_gpt, outcome being what chat.completions.create does
process_md_gpt(markdown_content, key, outcome) ==
    IF ~key THEN Result(Null, <<"error: API Key per OpenAI non fornita">>, FALSE)
    ELSE IF ~Truthy(markdown_content)
    THEN Result(Null, <<"warning: Nessun contenuto markdown">>, FALSE)
    ELSE IF ~outcome.ok
    THEN Result(Null, <<"info: Processing del markdown", "error: Errore durante la chiamata">>,
                TRUE)
    ELSE LET loaded == json_loads(outcome.val) IN
         IF loaded.ok
         THEN Result(loaded.val,
                     <<"info: Processing del markdown", "success: Estrazione JSON completata">>,
                     TRUE)
         ELSE IF loaded.exc = "JSONDecodeError"
         THEN Result(Null, <<"info: Processing del markdown",
                             "error: Errore nel parsing del JSON", "code: risposta ricevuta">>,
                     TRUE)
         ELSE Result(Null, <<"info: Processing del markdown",
                             "error: Errore durante la chiamata">>, TRUE)

-----------------------------------------------------------------------------
(* The script: one run per user interaction (lines 17-26 and 246-330) *)

DictSet(d, k, v) == [x \in DOMAIN d \cup {k} |-> IF x = k THEN v ELSE d[x]]
DictDel(d, k) == [x \in DOMAIN d \ {k} |-> d[x]]

Min(a, b) == IF a < b THEN a ELSE b

NewRun ==
    [messages |-> <<>>, path |-> 0, shown |-> {}, crashed |-> "none",
     parseCalled |-> FALSE, llmCalled |-> FALSE, stored |-> {}]

NoCalls == [parse |-> 0, llm |-> 0]
NoOrigin == [markdown_content |-> "none", meal_plan_json |-> "none"]

\* a variant of line 266 with `and` for `or`
KeysMissingBoth(llama, openai) == ~llama /\ ~openai

\* line 266
KeysMissing(llama, openai) == ~llama \/ ~openai

\* a variant of line 276 that tests the stored value instead of the key
NeedsParsingOrFailed(state) ==
    "markdown_content" \notin DOMAIN state \/ ~Truthy(state["markdown_content"])

\* line 276
NeedsParsing(state) == "markdown_content" \notin DOMAIN state

\* line 294
NeedsExtraction(state) == "meal_plan_json" \notin DOMAIN state

\* a variant of lines 282-283 that removes the file only after a successful parse
RemoveTempFileOnSuccess(fs, path, markdown_content) ==
    IF Truthy(markdown_content) THEN DictDel(fs, path) ELSE fs

\* lines 282-283: os.path.exists / os.remove after the parsing step
RemoveTempFile(fs, path, markdown_content) == DictDel(fs, path)

\* a variant of clear_cache without lines 248-249
clear_cache_keeping_markdown(state) ==
    [session_state |-> DictDel(state, "meal_plan_json"),
     uploaded_file |-> Null,
     cache_data |-> NoFields]

\* clear_cache (lines 247-254): the session state, the widget value and the
\* function cache it leaves
clear_cache(state) ==
    [session_state |-> DictDel(DictDel(state, "markdown_content"), "meal_plan_json"),
     uploaded_file |-> Null,
     cache_data |-> NoFields]

\* where the session stands between two runs
Phase ==
    IF "markdown_content" \notin DOMAIN session_state THEN "idle"
    ELSE IF ~Truthy(session_state["markdown_content"]) THEN "parse_failed"
    ELSE IF "meal_plan_json" \notin DOMAIN session_state THEN "parsed"
    ELSE IF ~Truthy(session_state["meal_plan_json"]) THEN "extract_failed"
    ELSE "extracted"

\* resetFrom after an interaction other than the reset
ResetFromAfter == IF lastOp = "reset" THEN resetFrom ELSE "none"

\* lines 17-26: the sidebar warning when st.secrets lacks a key
KeyMessages == IF secrets THEN <<>> ELSE <<"warning: API keys non trovate in st.secrets">>

\* From the top of the script to the parsing step (lines 17-26, 258-273, 329-330),
\* with the widget values this run sees
ScriptStart(llama, openai, upload) ==
    IF upload.t = "null"
    THEN /\ run' = [NewRun EXCEPT
                      !.messages = KeyMessages \o <<"info: In attesa del caricamento">>]
         /\ pc' = "idle"
         /\ files' = files
    ELSE IF KeysMissing(llama, openai)
    THEN /\ run' = [NewRun EXCEPT
                      !.messages = KeyMessages \o <<"error: inserisci le API key">>]
         /\ pc' = "idle"
         /\ files' = files
    ELSE \E path \in (1..MaxPaths) \ DOMAIN files :
            /\ files' = DictSet(files, path, upload.value)
            /\ run' = [NewRun EXCEPT !.messages = KeyMessages, !.path = path]
            /\ pc' = "parse"

\* any interaction that changes no widget this model tracks
Rerun ==
    /\ pc = "idle"
    /\ UNCHANGED renderVars
    /\ resetFrom' = ResetFromAfter
    /\ lastOp' = "rerun"
    /\ ScriptStart(LLAMA_CLOUD_API_KEY, OPENAI_API_KEY, uploaded_file)
    /\ UNCHANGED <<LLAMA_CLOUD_API_KEY, OPENAI_API_KEY, secrets, uploaded_file,
                   session_state, cache_data, calls, origin>>

\* the user picks a document in the file_uploader (lines 261-263)
Upload(d) ==
    /\ pc = "idle"
    /\ UNCHANGED renderVars
    /\ resetFrom' = ResetFromAfter
    /\ uploaded_file # UploadedFile(d)
    /\ uploaded_file' = UploadedFile(d)
    /\ calls' = NoCalls
    /\ lastOp' = "upload"
    /\ ScriptStart(LLAMA_CLOUD_API_KEY, OPENAI_API_KEY, UploadedFile(d))
    /\ UNCHANGED <<LLAMA_CLOUD_API_KEY, OPENAI_API_KEY, secrets,
                   session_state, cache_data, origin>>

\* the user removes the document from the file_uploader
RemoveUpload ==
    /\ pc = "idle"
    /\ UNCHANGED renderVars
    /\ resetFrom' = ResetFromAfter
    /\ uploaded_file.t # "null"
    /\ uploaded_file' = Null
    /\ lastOp' = "remove"
    /\ ScriptStart(LLAMA_CLOUD_API_KEY, OPENAI_API_KEY, Null)
    /\ UNCHANGED <<LLAMA_CLOUD_API_KEY, OPENAI_API_KEY, secrets,
                   session_state, cache_data, calls, origin>>

\* the user edits the two sidebar text inputs (lines 25-26)
EditKeys(llama, openai) ==
    /\ pc = "idle"
    /\ UNCHANGED renderVars
    /\ resetFrom' = ResetFromAfter
    /\ ~secrets
    /\ <<llama, openai>> # <<LLAMA_CLOUD_API_KEY, OPENAI_API_KEY>>
    /\ LLAMA_CLOUD_API_KEY' = llama
    /\ OPENAI_API_KEY' = openai
    /\ lastOp' = "keys"
    /\ ScriptStart(llama, openai, uploaded_file)
    /\ UNCHANGED <<secrets, uploaded_file, session_state, cache_data, calls, origin>>

\* the reset button: the clear_cache callback, then the script (lines 247-258)
ClickReset ==
    /\ pc = "idle"
    /\ UNCHANGED renderVars
    /\ LET cleared == clear_cache(session_state) IN
       /\ session_state' = cleared.session_state
       /\ uploaded_file' = cleared.uploaded_file
       /\ cache_data' = cleared.cache_data
       /\ ScriptStart(LLAMA_CLOUD_API_KEY, OPENAI_API_KEY, cleared.uploaded_file)
    /\ resetFrom' = Phase
    /\ calls' = NoCalls
    /\ origin' = NoOrigin
    /\ lastOp' = "reset"
    /\ UNCHANGED <<LLAMA_CLOUD_API_KEY, OPENAI_API_KEY, secrets>>

\* lines 275-280: the parsing step
ParseStep ==
    /\ pc = "parse"
    /\ UNCHANGED renderVars
    /\ pc' = "cleanup"
    /\ IF NeedsParsing(session_state)
       THEN \E outcome \in LoadDataOutcomes(files[run.path]) :
              LET r == CachedCall(cache_data, run.path, LLAMA_CLOUD_API_KEY, outcome) IN
              /\ session_state' = DictSet(session_state, "markdown_content", r.value)
              /\ cache_data' = CacheAfter(cache_data, run.path, r)
              /\ run' = [run EXCEPT !.messages = @ \o r.messages,
                                    !.parseCalled = r.called,
                                    !.stored = @ \cup {"markdown_content"}]
              /\ calls' = [calls EXCEPT
                             !.parse = Min(@ + (IF r.called THEN 1 ELSE 0), MaxCount)]
              /\ origin' = [origin EXCEPT !.markdown_content = files[run.path]]
       ELSE UNCHANGED <<session_state, cache_data, run, calls, origin>>
    /\ UNCHANGED <<LLAMA_CLOUD_API_KEY, OPENAI_API_KEY, secrets, uploaded_file, files,
                   lastOp, resetFrom>>

\* lines 282-290 and 327-328: the temporary file is removed, the markdown shown
CleanupStep ==
    /\ pc = "cleanup"
    /\ UNCHANGED renderVars
    /\ files' = RemoveTempFile(files, run.path, session_state["markdown_content"])
    /\ IF Truthy(session_state["markdown_content"])
       THEN /\ pc' = "extract"
            /\ run' = [run EXCEPT !.shown = @ \cup {"markdown"}]
       ELSE /\ pc' = "idle"
            /\ run' = [run EXCEPT !.messages =
                          Append(@, "error: Non e stato possibile parsare il PDF")]
    /\ UNCHANGED <<LLAMA_CLOUD_API_KEY, OPENAI_API_KEY, secrets, uploaded_file,
                   session_state, cache_data, calls, origin, lastOp, resetFrom>>

\* lines 293-298 and 323-326: the extraction step
ExtractStep ==
    /\ pc = "extract"
    /\ UNCHANGED renderVars
    /\ IF NeedsExtraction(session_state)
       THEN \E outcome \in
                CompletionOutcomes(MarkdownSource(session_state["markdown_content"])) :
              LET r == process_md_gpt(session_state["markdown_content"],
                                      OPENAI_API_KEY, outcome) IN
              /\ session_state' = DictSet(session_state, "meal_plan_json", r.value)
              /\ run' = [run EXCEPT
                           !.messages = @ \o r.messages \o
                              (IF Truthy(r.value) THEN <<>>
                               ELSE <<"error: Non e stato possibile generare il JSON">>),
                           !.llmCalled = r.called,
                           !.stored = @ \cup {"meal_plan_json"}]
              /\ calls' = [calls EXCEPT
                             !.llm = Min(@ + (IF r.called THEN 1 ELSE 0), MaxCount)]
              /\ origin' = [origin EXCEPT !.meal_plan_json =
                               MarkdownSource(session_state["markdown_content"])]
       ELSE /\ run' = [run EXCEPT !.messages = @ \o
                          (IF Truthy(session_state["meal_plan_json"]) THEN <<>>
                           ELSE <<"error: Non e stato possibile generare il JSON">>)]
            /\ UNCHANGED <<session_state, calls, origin>>
    /\ pc' = IF Truthy(session_state'["meal_plan_json"]) THEN "render" ELSE "idle"
    /\ UNCHANGED <<LLAMA_CLOUD_API_KEY, OPENAI_API_KEY, secrets, uploaded_file,
                   cache_data, files, lastOp, resetFrom>>

\* lines 302-321: the three views; an exception ends the run where it is raised
RenderStep ==
    /\ pc = "render"
    /\ UNCHANGED renderVars
    /\ pc' = "idle"
    /\ LET meal_plan_json == session_state["meal_plan_json"]
           weekly_plan_df == get_weekly_plan(meal_plan_json)
           notes_df == get_notes(meal_plan_json)
           json_text_output == json_to_text(meal_plan_json)
       IN run' =
            IF ~weekly_plan_df.ok THEN [run EXCEPT !.crashed = weekly_plan_df.exc]
            ELSE IF ~notes_df.ok
            THEN [run EXCEPT !.shown = @ \cup {"weekly_plan"}, !.crashed = notes_df.exc]
            ELSE IF ~json_text_output.ok
            THEN [run EXCEPT !.shown = @ \cup {"weekly_plan", "notes"},
                             !.crashed = json_text_output.exc]
            ELSE [run EXCEPT !.shown = @ \cup {"weekly_plan", "notes", "text"},
                             !.messages = Append(@, "info: Per copiare il testo")]
    /\ UNCHANGED <<LLAMA_CLOUD_API_KEY, OPENAI_API_KEY, secrets, uploaded_file,
                   session_state, cache_data, files, calls, origin, lastOp,
                   resetFrom>>

-----------------------------------------------------------------------------
(* Specifications *)

\* the session after the first run of the script: nothing uploaded yet
SessionInit ==
    /\ secrets \in BOOLEAN
    /\ LLAMA_CLOUD_API_KEY = secrets
    /\ OPENAI_API_KEY = secrets
    /\ uploaded_file = Null
    /\ session_state = NoFields
    /\ cache_data = NoFields
    /\ files = NoFields
    /\ pc = "idle"
    /\ run = [NewRun EXCEPT
                !.messages = KeyMessages \o <<"info: In attesa del caricamento">>]
    /\ calls = NoCalls
    /\ origin = NoOrigin
    /\ lastOp = "start"
    /\ resetFrom = "none"

Init ==
    /\ SessionInit
    /\ json_input = Null
    /\ rpc = "off"
    /\ out = Null

Next ==
    \/ Rerun
    \/ \E d \in Docs : Upload(d)
    \/ RemoveUpload
    \/ \E llama, openai \in BOOLEAN : EditKeys(llama, openai)
    \/ ClickReset
    \/ ParseStep
    \/ CleanupStep
    \/ ExtractStep
    \/ RenderStep

Spec == Init /\ [][Next]_vars

RenderSpecInit ==
    /\ SessionInit
    /\ secrets = TRUE
    /\ RenderInit

RenderNext ==
    \/ ApplyJsonToText
    \/ ApplyGetWeeklyPlan
    \/ ApplyGetNotes

RenderSpec == RenderSpecInit /\ [][RenderNext]_vars

-----------------------------------------------------------------------------
(* Reading a plan and a rendered text, for the properties below *)

\* the elements of a list field that may be absent or null
ListOf(d, k) == IF Has(d, k) /\ d.v[k].t = "list" THEN d.v[k].v ELSE <<>>

\* the days of a plan with a day list
DaysOf(json) == json.v["giorni"].v

HasDayList(json) ==
    /\ json.t = "obj"
    /\ Has(json, "giorni")
    /\ json.v["giorni"].t = "list"

KeySet == {pasto_keys[i] : i \in 1..Len(pasto_keys)}

\* no slot of the plan is null
SlotsAreObjects(json) ==
    \A i \in 1..Len(DaysOf(json)) : \A k \in KeySet :
        Has(DaysOf(json)[i], k) => DaysOf(json)[i].v[k].t = "obj"

\* a MealPlan as the data model defines it: every day has a label and the five
\* slots, every slot has its two lists
IsMealPlan(json) ==
    /\ HasDayList(json)
    /\ \A i \in 1..Len(DaysOf(json)) :
          /\ Has(DaysOf(json)[i], "giorno")
          /\ \A k \in KeySet :
                /\ Has(DaysOf(json)[i], k)
                /\ DaysOf(json)[i].v[k].t = "obj"
                /\ \A f \in {"principale", "alternative"} :
                      /\ Has(DaysOf(json)[i].v[k], f)
                      /\ DaysOf(json)[i].v[k].v[f].t = "list"
    /\ Has(json, "note/consigli") => json.v["note/consigli"].t = "list"

\* the slot of a day, an empty object when the key is absent
SlotOf(day, k) == Get(day, k, EmptyDict)

RECURSIVE SplitOn(_, _)
\* text.split(sep) for a one-token separator
SplitOn(text, sep) ==
    IF \E i \in 1..Len(text) : text[i] = sep
    THEN LET i == CHOOSE i \in 1..Len(text) :
                     text[i] = sep /\ \A j \in 1..(i - 1) : text[j] # sep
         IN <<SubSeq(text, 1, i - 1)>> \o SplitOn(SubSeq(text, i + 1, Len(text)), sep)
    ELSE <<text>>

RECURSIVE Flatten(_)
Flatten(seqs) == IF seqs = <<>> THEN <<>> ELSE Head(seqs) \o Flatten(Tail(seqs))

ExpectedLabels ==
    [colazione |-> <<"C","o","l","a","z","i","o","n","e",":">>,
     spuntino_mattina |->
        <<"S","p","u","n","t","i","n","o"," ","m","a","t","t","i","n","a",":">>,
     pranzo |-> <<"P","r","a","n","z","o",":">>,
     spuntino_pomeriggio |->
        <<"S","p","u","n","t","i","n","o"," ","p","o","m","e","r","i","g","g","i","o",":">>,
     cena |-> <<"C","e","n","a",":">>]

FieldOr(item, f, default) == IF Has(item, f) THEN item.v[f] ELSE default

-----------------------------------------------------------------------------
(* Properties of get_weekly_plan *)

TableColumns == <<"giorno", "colazione", "spuntino_mattina", "pranzo",
                  "spuntino_pomeriggio", "cena">>

\* 'name (quantity)'
ExpectedCellItem(item) ==
    FieldOr(item, "alimento", <<>>) \o <<" (">> \o FieldOr(item, "quantita", <<>>) \o <<")">>

\* the cell of day i, slot k, is made of the primary items one per line and,
\* only when there are alternatives, a last line with the label and the
\* alternatives separated by ", "
CellIsExact(table, json, i, k) ==
    LET slot == SlotOf(DaysOf(json)[i], k)
        principale == ListOf(slot, "principale")
        alternative == ListOf(slot, "alternative")
        cell == OrderedGet(table.rows[i], k)
        lines == SplitOn(cell, "\n")
        extra == IF alternative = <<>> THEN 0 ELSE 1
    IN IF principale = <<>> /\ alternative = <<>> THEN cell = <<>>
       ELSE /\ Len(lines) = Len(principale) + extra
            /\ \A n \in 1..Len(principale) : lines[n] = ExpectedCellItem(principale[n])
            /\ alternative # <<>> =>
                 LET last == lines[Len(lines)]
                     parts == SplitOn(Tail(last), ", ")
                 IN /\ Head(last) = "Alternative: "
                    /\ Len(parts) = Len(alternative)
                    /\ \A n \in 1..Len(alternative) :
                          parts[n] = ExpectedCellItem(alternative[n])

\* C8: every cell of the weekly table is the primary items as 'name (quantity)'
\* joined by newlines, followed, only if there are alternatives, by one line
\* 'Alternative: ' with the alternatives joined by ', '; an empty primary list
\* gives the alternatives line alone, two empty lists give the empty string.
C8_CellFormat ==
    (rpc = "get_weekly_plan" /\ out.ok) =>
        \A i \in 1..Len(out.val.rows) : \A k \in KeySet :
            CellIsExact(out.val, json_input, i, k)

\* a table was built whose plan has a slot with alternatives and no primary
\* item, and that cell starts with the alternatives label
C8_Witness ==
    /\ rpc = "get_weekly_plan" /\ out.ok
    /\ \E i \in 1..Len(out.val.rows) : \E k \in KeySet :
          /\ ListOf(SlotOf(DaysOf(json_input)[i], k), "principale") = <<>>
          /\ Len(ListOf(SlotOf(DaysOf(json_input)[i], k), "alternative")) = MaxItems
          /\ Head(OrderedGet(out.val.rows[i], k)) = "Alternative: "

\* C7 as claimed: for every MealPlan, a plan with zero days included, the
\* table has one row per day in day order and exactly the six columns day,
\* colazione, spuntino_mattina, pranzo, spuntino_pomeriggio, cena.
C7_RowsAndSixColumns ==
    (rpc = "get_weekly_plan" /\ IsMealPlan(json_input)) =>
        /\ out.ok
        /\ Len(out.val.rows) = Len(DaysOf(json_input))
        /\ \A i \in 1..Len(out.val.rows) :
              OrderedGet(out.val.rows[i], "giorno") = DaysOf(json_input)[i].v["giorno"]
        /\ out.val.columns = TableColumns

-----------------------------------------------------------------------------
(* Properties of json_to_text *)

\* 'name: quantity' behind the bullet
ExpectedTextItem(item) ==
    <<"    \\u2022 ">> \o FieldOr(item, "alimento", <<"N/A">>) \o <<": ">>
        \o FieldOr(item, "quantita", <<"N/A">>)

\* the section of one slot: a blank line, the header, the primary block or
\* the 'no data' marker, and the alternatives block when there are alternatives
ExpectedSection(day, k) ==
    LET principale == ListOf(SlotOf(day, k), "principale")
        alternative == ListOf(SlotOf(day, k), "alternative")
    IN << <<>>, ExpectedLabels[k] >>
       \o (IF principale = <<>> THEN << <<"  - Principale: Nessun dato">> >>
           ELSE << <<"  - Principale:">> >>
                \o [n \in 1..Len(principale) |-> ExpectedTextItem(principale[n])])
       \o (IF alternative = <<>> THEN <<>>
           ELSE << <<"  - Alternative:">> >>
                \o [n \in 1..Len(alternative) |-> ExpectedTextItem(alternative[n])])

\* a day: its header, the five sections in the fixed order, the separator
ExpectedDay(day) ==
    << <<"Giorno: ">> \o FieldOr(day, "giorno", <<"Non specificato">>) >>
    \o Flatten([n \in 1..Len(TableColumns) - 1 |-> ExpectedSection(day, TableColumns[n + 1])])
    \o << <<>>, [n \in 1..SepWidth |-> "-"], <<>> >>

ExpectedNotes(json) ==
    LET notes == ListOf(json, "note/consigli") IN
    IF notes = <<>> THEN <<>>
    ELSE << <<"Note/Consigli:">> >> \o [n \in 1..Len(notes) |-> <<"\\u2022 ">> \o notes[n]]

ExpectedLines(json) ==
    Flatten([i \in 1..Len(DaysOf(json)) |-> ExpectedDay(DaysOf(json)[i])])
    \o ExpectedNotes(json)

\* C10: for every plan with a day list, the text holds the days in input
\* order, each a day header and the five slot sections in the fixed order,
\* each section a primary block of 'name: quantity' lines or the 'no data'
\* marker exactly when the primary list is empty, an alternatives block
\* exactly when there are alternatives, a separator after every day, and a
\* notes header with one bullet per note exactly when there are notes.
C10_TextLayout ==
    (rpc = "json_to_text" /\ HasDayList(json_input) /\ SlotsAreObjects(json_input)) =>
        /\ out.ok
        /\ IF ExpectedLines(json_input) = <<>> THEN out.val = <<>>
           ELSE SplitOn(out.val, "\n") = ExpectedLines(json_input)

\* a text was rendered for a plan of MaxDays days with notes, one slot of
\* which has primary items and alternatives
C10_Witness ==
    /\ rpc = "json_to_text" /\ out.ok
    /\ HasDayList(json_input) /\ SlotsAreObjects(json_input)
    /\ Len(DaysOf(json_input)) = MaxDays
    /\ ListOf(json_input, "note/consigli") # <<>>
    /\ \E i \in 1..MaxDays : \E k \in KeySet :
          /\ Len(ListOf(SlotOf(DaysOf(json_input)[i], k), "principale")) = MaxItems
          /\ ListOf(SlotOf(DaysOf(json_input)[i], k), "alternative") # <<>>

-----------------------------------------------------------------------------
(* Slots without data *)

\* the slot key is absent, or the slot is an object whose two lists are each
\* absent, null or empty
LacksData(day, k) ==
    \/ ~Has(day, k)
    \/ /\ day.v[k].t = "obj"
       /\ ListOf(day.v[k], "principale") = <<>>
       /\ ListOf(day.v[k], "alternative") = <<>>

\* the indices of the slot headers in a text, in order
HeaderIndices(lines) ==
    SelectSeq([n \in 1..Len(lines) |-> n],
              LAMBDA n : \E k \in KeySet : lines[n] = ExpectedLabels[k])

\* in the text, the header of slot number n (counting through the days) is
\* that of key k and the 'no data' marker follows it, with no alternatives block
SectionSaysNoData(text, n, k) ==
    LET lines == SplitOn(text, "\n")
        at == HeaderIndices(lines)
    IN /\ Len(at) >= n
       /\ lines[at[n]] = ExpectedLabels[k]
       /\ Len(lines) > at[n]
       /\ lines[at[n] + 1] = <<"  - Principale: Nessun dato">>
       /\ Len(lines) > at[n] + 1 => lines[at[n] + 2] # <<"  - Alternative:">>

\* C9 as claimed: for a day that lacks data for a slot (key absent, empty
\* lists, or a list field absent or null), json_to_text still emits the slot
\* header followed by the 'no data' marker and get_weekly_plan still has the
\* slot's column with an empty cell; neither omits the slot nor fails.
C9_LackingSlotRendered ==
    (HasDayList(json_input) /\ SlotsAreObjects(json_input)) =>
        \A i \in 1..Len(DaysOf(json_input)) : \A n \in 1..Len(pasto_keys) :
            LacksData(DaysOf(json_input)[i], pasto_keys[n]) =>
                /\ rpc = "json_to_text" =>
                      /\ out.ok
                      /\ SectionSaysNoData(out.val, (i - 1) * Len(pasto_keys) + n,
                                           pasto_keys[n])
                /\ rpc = "get_weekly_plan" =>
                      /\ out.ok
                      /\ \E c \in 1..Len(out.val.columns) :
                            out.val.columns[c] = pasto_keys[n]
                      /\ OrderedGet(out.val.rows[i], pasto_keys[n]) = <<>>

-----------------------------------------------------------------------------
(* Properties of the session *)

Uploaded == uploaded_file.t # "null"

Stored(k) == k \in DOMAIN session_state

Shows(message) == \E n \in 1..Len(run.messages) : run.messages[n] = message

\* C1: each service is called at most once for an upload, and once a result
\* (a value or a failure) is stored in the session, no later step calls the
\* service again while that result stays stored.
C1_AtMostOncePerUpload ==
    /\ [](calls.parse <= 1 /\ calls.llm <= 1)
    /\ [][(Stored("markdown_content") => (run'.parseCalled => run.parseCalled))
          /\ (Stored("meal_plan_json") => (run'.llmCalled => run.llmCalled))]_vars

\* a rerun went through the pipeline with a stored extraction failure and
\* called neither service
C1_Witness ==
    /\ pc = "idle" /\ lastOp = "rerun" /\ Uploaded
    /\ run.path # 0
    /\ Phase = "extract_failed"
    /\ calls = [parse |-> 1, llm |-> 1]
    /\ ~run.parseCalled /\ ~run.llmCalled

\* C2 as claimed: after a run that processed the upload, the markdown, the
\* meal plan and any failure result held in the session were produced from
\* the document that is uploaded now.
C2_SessionMatchesUpload ==
    (pc = "idle" /\ Uploaded /\ run.path # 0) =>
        /\ Stored("markdown_content") => origin.markdown_content = uploaded_file.value
        /\ Stored("meal_plan_json") => origin.meal_plan_json = uploaded_file.value
        /\ (Stored("markdown_content") /\ Truthy(session_state["markdown_content"])) =>
              MarkdownSource(session_state["markdown_content"]) = uploaded_file.value
        /\ (Stored("meal_plan_json") /\ Truthy(session_state["meal_plan_json"])) =>
              PlanSource(session_state["meal_plan_json"]) = uploaded_file.value

\* C3: after the reset the session is in its initial empty state (no
\* markdown_content, no meal_plan_json, no upload, an empty function cache),
\* and the upload that follows calls the parsing service again.
C3_ResetRestoresInitial ==
    /\ lastOp = "reset" =>
          /\ pc = "idle"
          /\ DOMAIN session_state = {}
          /\ ~Uploaded
          /\ DOMAIN cache_data = {}
          /\ DOMAIN files = {}
    /\ (resetFrom # "none" /\ lastOp = "upload" /\ pc # "parse"
          /\ LLAMA_CLOUD_API_KEY /\ OPENAI_API_KEY) => run.parseCalled

\* the session was reset after a plan had been extracted, and the next upload
\* was parsed by the service
C3_Witness ==
    /\ resetFrom = "extracted"
    /\ lastOp = "upload" /\ pc = "idle"
    /\ run.parseCalled

\* C4: with a document uploaded and either key absent, the run shows the
\* error, calls neither service and stores nothing in the session.
C4_MissingKeyBlocks ==
    (Uploaded /\ (~LLAMA_CLOUD_API_KEY \/ ~OPENAI_API_KEY)) =>
        /\ pc = "idle"
        /\ Shows("error: inserisci le API key")
        /\ ~run.parseCalled /\ ~run.llmCalled
        /\ run.stored = {}
        /\ run.path = 0
        /\ run.crashed = "none"

\* a document was uploaded while only the language-model key was missing
C4_Witness ==
    /\ pc = "idle" /\ lastOp = "upload" /\ Uploaded
    /\ LLAMA_CLOUD_API_KEY /\ ~OPENAI_API_KEY
    /\ Shows("error: inserisci le API key")

\* C5: the temporary copy exists only during the parsing step of the run
\* that created it; past that step no temporary file is left, whatever the
\* parsing step did.
C5_TempFileRemoved ==
    /\ pc \in {"parse", "cleanup"} => DOMAIN files = {run.path}
    /\ pc \in {"idle", "extract", "render"} => DOMAIN files = {}

\* a run created a temporary file, the parsing call raised, and the run ended
C5_Witness ==
    /\ pc = "idle" /\ run.path # 0 /\ run.parseCalled
    /\ Shows("error: errore durante il parsing")
    /\ DOMAIN files = {}

\* C6 as claimed: whatever the two services return, a failure is caught,
\* shown as a message and halts its stage, and no exception escapes the run.
C6_NoExceptionEscapes ==
    /\ run.crashed = "none"
    /\ (pc = "idle" /\ run.path # 0 /\ ~Truthy(session_state["markdown_content"])) =>
          /\ Shows("error: Non e stato possibile parsare il PDF")
          /\ run.shown = {}
          /\ ~run.llmCalled
    /\ (pc = "idle" /\ run.path # 0 /\ Truthy(session_state["markdown_content"])
          /\ ~Truthy(session_state["meal_plan_json"])) =>
          /\ Shows("error: Non e stato possibile generare il JSON")
          /\ run.shown = {"markdown"}

====
